---- MODULE Spec2Model ----
(***************************************************************************)
(* The encrypted project store of the WordPress content generator:         *)
(* EncryptionManager (utils/encryption.py), DataStorage (data/storage.py), *)
(* WordPressProject (data/models.py) and ProjectManager                    *)
(* (core/project_manager.py); and the run over a project's keywords:       *)
(* ProgressWindow (gui/progress_window.py), ContentProcessor               *)
(* (core/content_processor.py) and the slug of WordPressAPI                *)
(* (api/wordpress_api.py).                                                 *)
(*                                                                         *)
(* A Python str is a sequence of code points, a bytes object a sequence of *)
(* numbers 0..255.  A file is a record [exists, complete, projects]: the   *)
(* JSON document {"version": "1.0", "projects": [...]} when it is          *)
(* complete, a prefix of it that json.load rejects when it is not.         *)
(***************************************************************************)
EXTENDS Integers, Sequences, FiniteSets, TLC

VARIABLES
    projects,   \* ProjectManager.projects, the in-memory collection
    file,       \* projects.json
    tmp,        \* projects.json.tmp
    pending,    \* save_projects' local projects_data, as written to the temp file
    saveOld,    \* history: projects.json as it was when the running save began
    writable,   \* whether the data directory accepts writes (test_write_permission)
    pc,         \* where the main thread stands inside DataStorage.save_projects
    op,         \* the latest ProjectManager call and its argument
    ret,        \* what that call gave its caller, "running" until it returns
    crashPc,    \* history: pc at the last process crash ("none" before any)
    rpc,        \* a concurrent reader's position inside DataStorage.load_projects
    rres,       \* what the concurrent reader's load_projects returned
    now,        \* the wall clock read by datetime.now()
    nextId,     \* the number of uuid4() values drawn so far
    key,        \* EncryptionManager.key
    encIn,      \* the string handed to EncryptionManager.encrypt
    encOut,     \* what encrypt returned
    decOut,     \* what decrypt returned for encOut
    encPc,      \* the position of the encrypt/decrypt round trip
    key_file,       \* <data_dir>/.encryption_key: the key it holds, or NoKey
    temp_key_file,  \* <tempdir>/wp_gen_key: the key it holds, or NoKey
    sessions,       \* history: the keys the EncryptionManager constructions resolved
    runner,         \* the loop that runs: process_keywords or process_all_keywords
    project,        \* the project the run is over (ProgressWindow.project)
    index,          \* the loop's index (0-based, as enumerate gives it)
    tpc,            \* where the worker thread stands inside the loop
    title,          \* process_single_keyword's local title
    results,        \* ProgressWindow.results / process_all_keywords' results
    is_running,     \* ProgressWindow.is_running
    is_cancelled,   \* ProgressWindow.is_cancelled
    cancelled_at,   \* history: where the worker stood when cancellation was signalled
    ended,          \* the handler that closed the run, "none" before
    events,         \* history: the progress events emitted, in order
    pauses,         \* history: the indexes after which time.sleep(5) was called
    replies,        \* history: what the collaborators answered, per keyword attempted
    slug_keyword,   \* the keyword process_single_keyword derives a slug from
    slug_sent,      \* post_data['slug'], what create_post submits
    response,       \* what session.post gave create_post: a response or an exception
    wp_result     \* what create_post returned to process_single_keyword

diskVars == <<file, tmp>>
saveVars == <<pending, saveOld, pc, op>>
readerVars == <<rpc, rres>>
encVars == <<encIn, encOut, decOut, encPc>>
keyVars == <<key_file, temp_key_file, sessions>>
runVars == <<runner, project, index, tpc, title, results, is_running, is_cancelled,
             cancelled_at, ended, events, pauses, replies>>
slugVars == <<slug_keyword, slug_sent, response, wp_result>>
pipeVars == <<keyVars, runVars, slugVars>>
vars == <<projects, file, tmp, pending, saveOld, writable, pc, op, ret, crashPc,
          rpc, rres, now, nextId, key, encIn, encOut, decOut, encPc,
          key_file, temp_key_file, sessions,
          runner, project, index, tpc, title, results, is_running, is_cancelled,
          cancelled_at, ended, events, pauses, replies, slug_keyword, slug_sent,
          response, wp_result>>

----------------------------------------------------------------------------
(* Bounds of the model *)

MaxProjects == 2    \* records the collection may hold
MaxIds == 3         \* uuid4() values drawn in one behaviour
MaxClock == 1       \* ticks of the wall clock
MaxStrLen == 2      \* code points of a string handed to encrypt
MaxKeywords == 2    \* keywords of a record

----------------------------------------------------------------------------
(* Python's str.encode('utf-8') / bytes.decode('utf-8') *)

Ok(v) == [ok |-> TRUE, val |-> v]
Fail == [ok |-> FALSE, val |-> <<>>]

Utf8Char(c) ==
    IF c < 128 THEN <<c>>
    ELSE IF c < 2048 THEN <<192 + (c \div 64), 128 + (c % 64)>>
    ELSE <<224 + (c \div 4096), 128 + ((c \div 64) % 64), 128 + (c % 64)>>

RECURSIVE Utf8Encode(_)
Utf8Encode(s) ==
    IF s = <<>> THEN <<>> ELSE Utf8Char(Head(s)) \o Utf8Encode(Tail(s))

IsCont(b) == b >= 128 /\ b < 192

RECURSIVE Utf8Scan(_, _)
Utf8Scan(b, out) ==
    IF b = <<>> THEN Ok(out)
    ELSE LET h == Head(b) IN
         IF h < 128 THEN Utf8Scan(Tail(b), Append(out, h))
         ELSE IF h >= 194 /\ h < 224 /\ Len(b) >= 2 /\ IsCont(b[2])
              THEN Utf8Scan(SubSeq(b, 3, Len(b)),
                            Append(out, (h - 192) * 64 + (b[2] - 128)))
         ELSE IF h >= 224 /\ h < 240 /\ Len(b) >= 3 /\ IsCont(b[2]) /\ IsCont(b[3])
              THEN LET c == (h - 224) * 4096 + (b[2] - 128) * 64 + (b[3] - 128) IN
                   IF c < 2048 \/ (c >= 55296 /\ c < 57344) THEN Fail
                   ELSE Utf8Scan(SubSeq(b, 4, Len(b)), Append(out, c))
         ELSE Fail

Utf8Decode(b) == Utf8Scan(b, <<>>)

----------------------------------------------------------------------------
(* base64.b64encode / b64decode and their urlsafe variants: text is the    *)
(* sequence of the ASCII codes of the base64 characters                    *)

PadChar == 61

B64Char(v, url) ==
    IF v < 26 THEN 65 + v
    ELSE IF v < 52 THEN 97 + (v - 26)
    ELSE IF v < 62 THEN 48 + (v - 52)
    ELSE IF v = 62 THEN (IF url THEN 45 ELSE 43)
    ELSE (IF url THEN 95 ELSE 47)

\* The value of a base64 character, -1 for a character outside the alphabet.
\* urlsafe_b64decode translates '-' and '_' and then calls b64decode.
B64Value(c, url) ==
    IF c >= 65 /\ c <= 90 THEN c - 65
    ELSE IF c >= 97 /\ c <= 122 THEN c - 97 + 26
    ELSE IF c >= 48 /\ c <= 57 THEN c - 48 + 52
    ELSE IF c = 43 \/ (url /\ c = 45) THEN 62
    ELSE IF c = 47 \/ (url /\ c = 95) THEN 63
    ELSE 0 - 1

RECURSIVE B64Encode(_, _)
B64Encode(b, url) ==
    IF b = <<>> THEN <<>>
    ELSE IF Len(b) = 1 THEN
        <<B64Char(b[1] \div 4, url), B64Char((b[1] % 4) * 16, url), PadChar, PadChar>>
    ELSE IF Len(b) = 2 THEN
        <<B64Char(b[1] \div 4, url),
          B64Char((b[1] % 4) * 16 + (b[2] \div 16), url),
          B64Char((b[2] % 16) * 4, url), PadChar>>
    ELSE
        <<B64Char(b[1] \div 4, url),
          B64Char((b[1] % 4) * 16 + (b[2] \div 16), url),
          B64Char((b[2] % 16) * 4 + (b[3] \div 64), url),
          B64Char(b[3] % 64, url)>> \o B64Encode(SubSeq(b, 4, Len(b)), url)

\* The bytes of the sextets q gathered so far (2, 3 or 4 of them).
QuadBytes(q) ==
    IF Len(q) = 2 THEN <<q[1] * 4 + (q[2] \div 16)>>
    ELSE IF Len(q) = 3 THEN <<q[1] * 4 + (q[2] \div 16), (q[2] % 16) * 16 + (q[3] \div 4)>>
    ELSE <<q[1] * 4 + (q[2] \div 16), (q[2] % 16) * 16 + (q[3] \div 4),
           (q[3] % 4) * 64 + q[4]>>

\* binascii.a2b_base64 without strict mode: characters outside the alphabet
\* are skipped, complete padding ends the data, and data that stops inside
\* a quad is "Incorrect padding".
RECURSIVE B64Scan(_, _, _, _, _)
B64Scan(s, url, q, pads, out) ==
    IF s = <<>> THEN (IF q = <<>> THEN Ok(out) ELSE Fail)
    ELSE LET c == Head(s) IN
         IF c = PadChar THEN
              IF Len(q) >= 2 /\ Len(q) + pads + 1 >= 4
              THEN Ok(out \o QuadBytes(q))
              ELSE B64Scan(Tail(s), url, q, pads + 1, out)
         ELSE IF B64Value(c, url) < 0 THEN B64Scan(Tail(s), url, q, pads, out)
         ELSE LET q2 == Append(q, B64Value(c, url)) IN
              IF Len(q2) = 4 THEN B64Scan(Tail(s), url, <<>>, 0, out \o QuadBytes(q2))
              ELSE B64Scan(Tail(s), url, q2, 0, out)

B64Decode(s, url) == B64Scan(s, url, <<>>, 0, <<>>)

----------------------------------------------------------------------------
(* cryptography.fernet.Fernet.  A token is                                 *)
(*   urlsafe_b64encode(0x80 || nonce || ciphertext || hmac)                *)
(* where nonce stands for the timestamp and the random IV of the call.     *)
(* The block cipher and the HMAC are a keyed byte shift and a keyed        *)
(* checksum: what the store relies on is that the token authenticates      *)
(* against the key and carries the plaintext back.                         *)

FernetVersion == 128

RECURSIVE SumSeq(_)
SumSeq(s) == IF s = <<>> THEN 0 ELSE Head(s) + SumSeq(Tail(s))

Mac(k, signed) == (SumSeq(signed) * 3 + k * 7 + Len(signed)) % 256

FernetEncrypt(k, iv, data) ==
    LET body == [i \in 1..Len(data) |-> (data[i] + k + iv) % 256]
        signed == <<FernetVersion, iv>> \o body
    IN  B64Encode(Append(signed, Mac(k, signed)), TRUE)

\* Fernet.decrypt: InvalidToken for a token that is not base64, is too
\* short, has another version byte or whose HMAC does not verify.
FernetDecrypt(k, token) ==
    LET raw == B64Decode(token, TRUE) IN
    IF ~raw.ok \/ Len(raw.val) < 3 THEN Fail
    ELSE LET b == raw.val
             signed == SubSeq(b, 1, Len(b) - 1)
         IN  IF b[1] # FernetVersion \/ b[Len(b)] # Mac(k, signed) THEN Fail
             ELSE Ok([i \in 1..(Len(b) - 3) |-> (b[i + 2] - k - b[2] + 512) % 256])

----------------------------------------------------------------------------
(* EncryptionManager.encrypt / decrypt.  A raised exception is Fail.       *)

\* encrypt without the base64 layer: the Fernet token returned as it is
EncryptRawToken(k, iv, data) ==
    IF data = <<>> THEN <<>> ELSE FernetEncrypt(k, iv, Utf8Encode(data))

Encrypt(k, iv, data) ==
    IF data = <<>> THEN <<>>
    ELSE B64Encode(FernetEncrypt(k, iv, Utf8Encode(data)), FALSE)

Decrypt(k, encrypted) ==
    IF encrypted = <<>> THEN Ok(<<>>)
    ELSE LET token == B64Decode(encrypted, FALSE) IN
         IF ~token.ok THEN Fail
         ELSE LET plain == FernetDecrypt(k, token.val) IN
              IF ~plain.ok THEN Fail ELSE Utf8Decode(plain.val)

----------------------------------------------------------------------------
(* Input domains *)

Keys == {11, 200}                   \* Fernet keys
Nonces == {5, 250}                  \* timestamp/IV values of one encrypt call
Alphabet == {97, 233, 8364}         \* 'a', e-acute (2 bytes), euro sign (3 bytes)

RECURSIVE StringsUpTo(_)
StringsUpTo(n) ==
    IF n = 0 THEN {<<>>}
    ELSE LET shorter == StringsUpTo(n - 1) IN
         shorter \cup {Append(s, c) : s \in {t \in shorter : Len(t) = n - 1}, c \in Alphabet}

Strings == StringsUpTo(MaxStrLen)

----------------------------------------------------------------------------
(* The round trip of debug_app.test_encryption: one EncryptionManager,     *)
(* encrypt and then decrypt                                                *)

NoFile == [exists |-> FALSE, complete |-> FALSE, projects |-> <<>>]
NoCall == [name |-> "none", arg |-> "none"]

NoKey == 0
NotCancelled == [tpc |-> "none", index |-> 0]

\* No EncryptionManager has been constructed over the directory, no run has
\* been started and no post has been submitted.
PipelineIdle ==
    /\ key_file = NoKey
    /\ temp_key_file = NoKey
    /\ sessions = <<>>
    /\ runner = "none"
    /\ project = [keywords |-> <<>>]
    /\ index = 0
    /\ tpc = "idle"
    /\ title = ""
    /\ results = <<>>
    /\ is_running = FALSE
    /\ is_cancelled = FALSE
    /\ cancelled_at = NotCancelled
    /\ ended = "none"
    /\ events = <<>>
    /\ pauses = <<>>
    /\ replies = <<>>
    /\ slug_keyword = <<>>
    /\ slug_sent = <<>>
    /\ response = <<>>
    /\ wp_result = <<>>

StoreIdle ==
    /\ projects = <<>>
    /\ file = NoFile
    /\ tmp = NoFile
    /\ pending = <<>>
    /\ saveOld = NoFile
    /\ writable = TRUE
    /\ pc = "idle"
    /\ op = NoCall
    /\ ret = "none"
    /\ crashPc = "none"
    /\ rpc = "idle"
    /\ rres = <<>>
    /\ now = 0
    /\ nextId = 0

storeVars == <<projects, file, tmp, pending, saveOld, writable, pc, op, ret, crashPc,
               rpc, rres, now, nextId>>

InitEnc ==
    /\ StoreIdle
    /\ key \in Keys
    /\ encIn \in Strings
    /\ encOut = <<>>
    /\ decOut = Fail
    /\ encPc = "start"
    /\ PipelineIdle

EncryptCall ==
    /\ encPc = "start"
    /\ \E iv \in Nonces : encOut' = Encrypt(key, iv, encIn)
    /\ encPc' = "encrypted"
    /\ UNCHANGED <<storeVars, key, encIn, decOut, pipeVars>>

DecryptCall ==
    /\ encPc = "encrypted"
    /\ decOut' = Decrypt(key, encOut)
    /\ encPc' = "decrypted"
    /\ UNCHANGED <<storeVars, key, encIn, encOut, pipeVars>>

NextEnc == EncryptCall \/ DecryptCall

SpecEnc == InitEnc /\ [][NextEnc]_vars

\* C8: for every non-empty string x and one EncryptionManager key,
\* decrypt(encrypt(x)) returns x (and does not raise).
C8_RoundTrip ==
    (encPc = "decrypted" /\ encIn # <<>>) => decOut = Ok(encIn)

\* A multi-byte, two-character string went through encrypt and decrypt.
C8_Witness ==
    /\ encPc = "decrypted"
    /\ Len(encIn) = 2
    /\ \E i \in 1..2 : encIn[i] > 127
    /\ encOut # encIn
    /\ decOut.ok

----------------------------------------------------------------------------
(* WordPressProject (data/models.py).  A record carries id, name, the two  *)
(* sensitive fields, keywords and the two timestamps; website_url,         *)
(* username, category_id, status, prompt_template and ai_provider_type     *)
(* pass through asdict, json and from_dict untouched and are left out.     *)

\* __post_init__: created_at is set when it is None, updated_at always.
\* A record built from given timestamps keeps created_at.
PostInit(r, t) == [r EXCEPT !.updated_at = t]

\* create_new: a fresh uuid4, created_at = updated_at = now.
CreateNew(uuid, name, app_password, keywords, ai_api_key, t) ==
    [id |-> uuid, name |-> name, app_password |-> app_password,
     ai_api_key |-> ai_api_key, keywords |-> keywords,
     created_at |-> t, updated_at |-> t]

\* to_dict: asdict(self), a copy of every field.
ToDict(r) == r

\* from_dict: cls(**data), which runs __post_init__ again.
FromDict(d, t) == PostInit(d, t)

\* update(**kwargs) as ProjectDialog.save_project calls it on the edited
\* record: the form's fields are set, id and created_at stay.
DialogUpdate(r, name, app_password, keywords, ai_api_key, t) ==
    [r EXCEPT !.name = name, !.app_password = app_password, !.keywords = keywords,
              !.ai_api_key = ai_api_key, !.updated_at = t]

----------------------------------------------------------------------------
(* DataStorage (data/storage.py) *)

Document(dicts) == [exists |-> TRUE, complete |-> TRUE, projects |-> dicts]
PartialFile == [exists |-> TRUE, complete |-> FALSE, projects |-> <<>>]

\* save_projects, lines 57-67 with the app_password left as it is
EncryptRecordsKeyOnly(k, projs, iv) ==
    [i \in 1..Len(projs) |->
        [ToDict(projs[i]) EXCEPT
            !.ai_api_key = Encrypt(k, iv, projs[i].ai_api_key)]]

\* save_projects, lines 57-67: projects_data, every record's dictionary
\* with both sensitive fields encrypted.  The encrypt calls of one save
\* share the nonce iv: they fall in the same second, and the store never
\* compares two ciphertexts.
EncryptRecords(k, projs, iv) ==
    [i \in 1..Len(projs) |->
        [ToDict(projs[i]) EXCEPT
            !.app_password = Encrypt(k, iv, projs[i].app_password),
            !.ai_api_key = Encrypt(k, iv, projs[i].ai_api_key)]]

\* load_projects, lines 116-129, stopping at the first record that fails
RECURSIVE DecryptRecordsAbort(_, _, _)
DecryptRecordsAbort(k, dicts, t) ==
    IF dicts = <<>> THEN <<>>
    ELSE LET d == Head(dicts)
             pw == Decrypt(k, d.app_password)
             ak == Decrypt(k, d.ai_api_key)
         IN  IF pw.ok /\ ak.ok
             THEN <<FromDict([d EXCEPT !.app_password = pw.val, !.ai_api_key = ak.val], t)>>
                  \o DecryptRecordsAbort(k, Tail(dicts), t)
             ELSE <<>>

\* load_projects, lines 113-129, with projects.insert(0, project) for the
\* append of line 124
RECURSIVE DecryptRecordsPrepend(_, _, _)
DecryptRecordsPrepend(k, dicts, t) ==
    IF dicts = <<>> THEN <<>>
    ELSE LET d == Head(dicts)
             pw == Decrypt(k, d.app_password)
             ak == Decrypt(k, d.ai_api_key)
             rest == DecryptRecordsPrepend(k, Tail(dicts), t)
         IN  IF pw.ok /\ ak.ok
             THEN Append(rest, FromDict([d EXCEPT !.app_password = pw.val,
                                                  !.ai_api_key = ak.val], t))
             ELSE rest

\* load_projects, lines 113-129, keeping a record whose decryption raises
\* with the fields as they are stored
RECURSIVE DecryptRecordsKeep(_, _, _)
DecryptRecordsKeep(k, dicts, t) ==
    IF dicts = <<>> THEN <<>>
    ELSE LET d == Head(dicts)
             pw == Decrypt(k, d.app_password)
             ak == Decrypt(k, d.ai_api_key)
             rest == DecryptRecordsKeep(k, Tail(dicts), t)
         IN  IF pw.ok /\ ak.ok
             THEN <<FromDict([d EXCEPT !.app_password = pw.val, !.ai_api_key = ak.val], t)>>
                  \o rest
             ELSE <<FromDict(d, t)>> \o rest

\* load_projects, lines 113-129: each dictionary is decrypted and turned
\* into a record; a dictionary whose decryption raises is skipped.
RECURSIVE DecryptRecords(_, _, _)
DecryptRecords(k, dicts, t) ==
    IF dicts = <<>> THEN <<>>
    ELSE LET d == Head(dicts)
             pw == Decrypt(k, d.app_password)
             ak == Decrypt(k, d.ai_api_key)
             rest == DecryptRecords(k, Tail(dicts), t)
         IN  IF pw.ok /\ ak.ok
             THEN <<FromDict([d EXCEPT !.app_password = pw.val, !.ai_api_key = ak.val], t)>>
                  \o rest
             ELSE rest

\* load_projects as a whole: [] for a missing file (line 106, or open
\* raising at line 110) and for one json.load rejects (line 134).
LoadRecords(k, f, t) ==
    IF ~f.exists \/ ~f.complete THEN <<>> ELSE DecryptRecords(k, f.projects, t)

----------------------------------------------------------------------------
(* ProjectManager (core/project_manager.py) over DataStorage.              *)
(*                                                                         *)
(* A mutating call runs as far as the open of the temp file in one step;   *)
(* the rest of DataStorage.save_projects is one step per file operation    *)
(* (write and close, exists/remove, rename), so that a crash and another   *)
(* process reading projects.json can fall between them.                    *)

Names == {"a", "b"}
Passwords == {<<97>>}
ApiKeys == {<<233>>}
KeywordLists == {<<"x", "y">>}

Ids(projs) == {projs[i].id : i \in 1..Len(projs)}
HasName(projs, n) == \E i \in 1..Len(projs) : projs[i].name = n
HasId(projs, id) == \E i \in 1..Len(projs) : projs[i].id = id

\* the index enumerate() stops at: the first record with this id
IndexOf(projs, id) == CHOOSE i \in 1..Len(projs) :
    projs[i].id = id /\ \A j \in 1..(i - 1) : projs[j].id # id

RemoveAt(projs, i) == SubSeq(projs, 1, i - 1) \o SubSeq(projs, i + 1, Len(projs))

NoProject == [id |-> 0]     \* None

\* ProjectManager.get_project (lines 109-114): the first record with the id
GetProject(projs, project_id) ==
    IF HasId(projs, project_id) THEN projs[IndexOf(projs, project_id)] ELSE NoProject

Call(name, arg) == [name |-> name, arg |-> arg]

DuplicateName == "ValueError: Project with this name already exists"
NotFound == "ValueError: Project not found"

\* What the ProjectManager call `name` returns once its save has ended:
\* add_project and save_projects return the save's result (lines 28-37,
\* 47-55), update_project and delete_project return True whatever it was
\* (lines 84-86, 100-102).
ResultOf(name, saveOk) ==
    IF name \in {"update", "delete"} THEN "True"
    ELSE IF saveOk THEN "True" ELSE "False"

\* the records after a save whose to_dict hands out the record's own
\* dictionary
RecordsAfterSaveShared(projs, data) == data

\* save_projects, lines 58-67, seen from the records it was given: to_dict
\* is asdict(self), which builds a new dictionary, so the assignments of
\* the ciphertexts to project_dict do not reach the record.
RecordsAfterSave(projs, data) == projs

\* DataStorage.save_projects, lines 53-75, under ProjectManager.save_projects
\* (lines 44-55): the permission probe, the encryption of every record, the
\* open of the temp file.  A failed probe raises, save_projects returns
\* False and the call returns.
BeginSave(name, arg, projs) ==
    /\ op' = Call(name, arg)
    /\ IF writable
       THEN /\ \E iv \in Nonces :
                  /\ pending' = EncryptRecords(key, projs, iv)
                  /\ projects' = RecordsAfterSave(projs, pending')
            /\ tmp' = PartialFile
            /\ saveOld' = file
            /\ pc' = "writing"
            /\ ret' = "running"
       ELSE /\ ret' = ResultOf(name, FALSE)
            /\ projects' = projs
            /\ UNCHANGED <<tmp, pending, saveOld, pc>>
    /\ UNCHANGED file

\* A call that raises before it touches anything.
Raise(name, arg, error) ==
    /\ op' = Call(name, arg)
    /\ ret' = error
    /\ UNCHANGED <<projects, file, tmp, pending, saveOld, pc>>

\* add_project that appends and saves before it looks at the names
AddProjectNoCheck(name, app_password, ai_api_key, keywords) ==
    LET rec == CreateNew(nextId + 1, name, app_password, keywords, ai_api_key, now) IN
    /\ pc = "idle"
    /\ nextId < MaxIds
    /\ Len(projects) < MaxProjects
    /\ nextId' = nextId + 1
    /\ BeginSave("add", name, Append(projects, rec))
    /\ UNCHANGED <<writable, crashPc, readerVars, now, key, encVars, pipeVars>>

\* add_project that returns True whatever save_projects returned, as
\* update_project and delete_project do
AddProjectIgnoreSave(name, app_password, ai_api_key, keywords) ==
    LET rec == CreateNew(nextId + 1, name, app_password, keywords, ai_api_key, now) IN
    /\ pc = "idle"
    /\ nextId < MaxIds
    /\ HasName(projects, name) \/ Len(projects) < MaxProjects
    /\ nextId' = nextId + 1
    /\ IF HasName(projects, name)
       THEN Raise("add", name, DuplicateName)
       ELSE IF writable
            THEN BeginSave("add", name, Append(projects, rec))
            ELSE /\ projects' = Append(projects, rec)
                 /\ op' = Call("add", name)
                 /\ ret' = "True"
                 /\ UNCHANGED <<file, tmp, pending, saveOld, pc>>
    /\ UNCHANGED <<writable, crashPc, readerVars, now, key, encVars, pipeVars>>

\* add_project that takes the record out again when its save has failed
AddProjectRollback(name, app_password, ai_api_key, keywords) ==
    LET rec == CreateNew(nextId + 1, name, app_password, keywords, ai_api_key, now) IN
    /\ pc = "idle"
    /\ nextId < MaxIds
    /\ HasName(projects, name) \/ Len(projects) < MaxProjects
    /\ nextId' = nextId + 1
    /\ IF HasName(projects, name)
       THEN Raise("add", name, DuplicateName)
       ELSE IF writable
            THEN BeginSave("add", name, Append(projects, rec))
            ELSE /\ op' = Call("add", name)
                 /\ ret' = "False"
                 /\ UNCHANGED <<projects, file, tmp, pending, saveOld, pc>>
    /\ UNCHANGED <<writable, crashPc, readerVars, now, key, encVars, pipeVars>>

\* MainWindow.add_project: the dialog builds the record with create_new,
\* then ProjectManager.add_project (lines 15-42).
AddProject(name, app_password, ai_api_key, keywords) ==
    LET rec == CreateNew(nextId + 1, name, app_password, keywords, ai_api_key, now) IN
    /\ pc = "idle"
    /\ nextId < MaxIds
    /\ HasName(projects, name) \/ Len(projects) < MaxProjects
    /\ nextId' = nextId + 1
    /\ IF HasName(projects, name)
       THEN Raise("add", name, DuplicateName)
       ELSE BeginSave("add", name, Append(projects, rec))
    /\ UNCHANGED <<writable, crashPc, readerVars, now, key, encVars, pipeVars>>

\* update_project without line 82, "Keep the same ID"
UpdateProjectOwnId(project_id, updated_project) ==
    /\ pc = "idle"
    /\ IF HasId(projects, project_id)
       THEN BeginSave("update", project_id,
                      [projects EXCEPT ![IndexOf(projects, project_id)] = updated_project])
       ELSE Raise("update", project_id, NotFound)
    /\ UNCHANGED <<writable, crashPc, readerVars, now, nextId, key, encVars, pipeVars>>

\* update_project that removes the record and appends its replacement
UpdateProjectMoveToEnd(project_id, updated_project) ==
    /\ pc = "idle"
    /\ IF HasId(projects, project_id)
       THEN BeginSave("update", project_id,
                      Append(RemoveAt(projects, IndexOf(projects, project_id)),
                             [updated_project EXCEPT !.id = project_id]))
       ELSE Raise("update", project_id, NotFound)
    /\ UNCHANGED <<writable, crashPc, readerVars, now, nextId, key, encVars, pipeVars>>

\* ProjectManager.update_project (lines 76-91)
UpdateProject(project_id, updated_project) ==
    /\ pc = "idle"
    /\ IF HasId(projects, project_id)
       THEN BeginSave("update", project_id,
                      [projects EXCEPT ![IndexOf(projects, project_id)] =
                          [updated_project EXCEPT !.id = project_id]])
       ELSE Raise("update", project_id, NotFound)
    /\ UNCHANGED <<writable, crashPc, readerVars, now, nextId, key, encVars, pipeVars>>

\* delete_project that saves and returns when it found nothing to delete
DeleteProjectSilent(project_id) ==
    /\ pc = "idle"
    /\ BeginSave("delete", project_id,
                 IF HasId(projects, project_id)
                 THEN RemoveAt(projects, IndexOf(projects, project_id))
                 ELSE projects)
    /\ UNCHANGED <<writable, crashPc, readerVars, now, nextId, key, encVars, pipeVars>>

\* delete_project that saves the collection before it removes the record
DeleteProjectSaveFirst(project_id) ==
    /\ pc = "idle"
    /\ IF HasId(projects, project_id)
       THEN /\ projects' = RemoveAt(projects, IndexOf(projects, project_id))
            /\ op' = Call("delete", project_id)
            /\ IF writable
               THEN /\ \E iv \in Nonces : pending' = EncryptRecords(key, projects, iv)
                    /\ tmp' = PartialFile
                    /\ saveOld' = file
                    /\ pc' = "writing"
                    /\ ret' = "running"
               ELSE /\ ret' = "True"
                    /\ UNCHANGED <<tmp, pending, saveOld, pc>>
            /\ UNCHANGED file
       ELSE Raise("delete", project_id, NotFound)
    /\ UNCHANGED <<writable, crashPc, readerVars, now, nextId, key, encVars, pipeVars>>

\* ProjectManager.delete_project (lines 93-107)
DeleteProject(project_id) ==
    /\ pc = "idle"
    /\ IF HasId(projects, project_id)
       THEN BeginSave("delete", project_id,
                      RemoveAt(projects, IndexOf(projects, project_id)))
       ELSE Raise("delete", project_id, NotFound)
    /\ UNCHANGED <<writable, crashPc, readerVars, now, nextId, key, encVars, pipeVars>>

\* ProjectManager.save_projects (lines 44-55) called on its own
SaveProjects ==
    /\ pc = "idle"
    /\ BeginSave("save", "all", projects)
    /\ UNCHANGED <<writable, crashPc, readerVars, now, nextId, key, encVars, pipeVars>>

\* DataStorage.save_projects, lines 75-79: json.dump into the temp file and
\* its close.
WriteTemp ==
    /\ pc = "writing"
    /\ tmp' = Document(pending)
    /\ pc' = "written"
    /\ UNCHANGED <<projects, file, pending, saveOld, op, ret, writable, crashPc,
                   readerVars, now, nextId, key, encVars, pipeVars>>

\* DataStorage.save_projects, lines 84-86: the existing target is removed.
RemoveTarget ==
    /\ pc = "written"
    /\ file' = IF file.exists THEN NoFile ELSE file
    /\ pc' = "rename"
    /\ UNCHANGED <<projects, tmp, pending, saveOld, op, ret, writable, crashPc,
                   readerVars, now, nextId, key, encVars, pipeVars>>

\* DataStorage.save_projects, lines 89-94: os.rename(temp_file,
\* projects_file); the save returns and with it the call.
RenameTemp ==
    /\ pc = "rename"
    /\ file' = tmp
    /\ tmp' = NoFile
    /\ ret' = ResultOf(op.name, TRUE)
    /\ pc' = "idle"
    /\ pending' = <<>>
    /\ saveOld' = NoFile
    /\ UNCHANGED <<projects, op, writable, crashPc, readerVars, now, nextId, key, encVars, pipeVars>>

\* ProjectManager.load_projects (lines 57-74): at start-up, from
\* MainWindow.__init__, and whenever the caller asks again.  A process
\* started on a directory it cannot write moves to another directory
\* (DataStorage._setup_storage), which is outside this model.
LoadProjects ==
    /\ pc = "idle" \/ (pc = "boot" /\ writable)
    /\ projects' = LoadRecords(key, file, now)
    /\ op' = Call("load", "all")
    /\ ret' = "list"
    /\ pc' = "idle"
    /\ pending' = <<>>
    /\ saveOld' = NoFile
    /\ crashPc' = "none"
    /\ UNCHANGED <<diskVars, writable, readerVars, now, nextId, key, encVars, pipeVars>>

\* The process dies, at any statement, and is started again: memory is
\* lost, the files stay.  pending and saveOld stay, until the next session
\* has loaded, as the record of the save that was running.
Crash ==
    /\ pc # "boot"
    /\ crashPc' = pc
    /\ projects' = <<>>
    /\ pc' = "boot"
    /\ op' = NoCall
    /\ ret' = "none"
    /\ UNCHANGED <<diskVars, pending, saveOld, writable, readerVars, now, nextId,
                   key, encVars, pipeVars>>

\* The directory's permissions change between two calls of the program: a
\* save that passed its probe at line 54 finds the directory writable at its
\* remove and rename too.
SetWritable ==
    /\ pc = "idle"
    /\ writable' = ~writable
    /\ UNCHANGED <<projects, diskVars, saveVars, ret, crashPc, readerVars, now,
                   nextId, key, encVars, pipeVars>>

\* Time passes.
Tick ==
    /\ now < MaxClock
    /\ now' = now + 1
    /\ UNCHANGED <<projects, diskVars, saveVars, ret, crashPc, readerVars, writable,
                   nextId, key, encVars, pipeVars>>

----------------------------------------------------------------------------
(* Another process running DataStorage.load_projects on the same file *)

\* load_projects, line 106: os.path.exists
ReaderExists ==
    /\ rpc = "idle"
    /\ IF file.exists
       THEN /\ rpc' = "open"
            /\ UNCHANGED rres
       ELSE /\ rpc' = "done"
            /\ rres' = <<>>
    /\ UNCHANGED <<projects, diskVars, saveVars, ret, crashPc, writable, now,
                   nextId, key, encVars, pipeVars>>

\* load_projects, lines 110-132: open, json.load, decrypt
ReaderOpen ==
    /\ rpc = "open"
    /\ rpc' = "done"
    /\ rres' = LoadRecords(key, file, now)
    /\ UNCHANGED <<projects, diskVars, saveVars, ret, crashPc, writable, now,
                   nextId, key, encVars, pipeVars>>

\* the reader's caller has taken the result
ReaderReturn ==
    /\ rpc = "done"
    /\ rpc' = "idle"
    /\ rres' = <<>>
    /\ UNCHANGED <<projects, diskVars, saveVars, ret, crashPc, writable, now,
                   nextId, key, encVars, pipeVars>>

----------------------------------------------------------------------------
(* The store in use: one session after another over one data directory.    *)
(* The sessions' records differ in id and name; what the timestamps, the   *)
(* keywords and the secrets go through is followed in SpecStore below.     *)

Init ==
    /\ projects = <<>>
    /\ file = NoFile
    /\ tmp = NoFile
    /\ pending = <<>>
    /\ saveOld = NoFile
    /\ writable = TRUE
    /\ pc = "boot"
    /\ op = NoCall
    /\ ret = "none"
    /\ crashPc = "none"
    /\ rpc = "idle"
    /\ rres = <<>>
    /\ now = 0
    /\ nextId = 0
    /\ key = 11
    /\ encIn = <<>>
    /\ encOut = <<>>
    /\ decOut = Fail
    /\ encPc = "start"
    /\ PipelineIdle

\* The records handed to update_project: a record of the collection as the
\* edit dialog has changed it (ProjectDialog.save_project, lines 397-410),
\* or a record built anew that carries the id of any record of the
\* collection.
Replacements ==
    {DialogUpdate(projects[j], n, p, k, a, now) :
        j \in 1..Len(projects), n \in Names, p \in Passwords, k \in KeywordLists,
        a \in ApiKeys}
    \cup {CreateNew(i, n, p, k, a, now) :
        i \in Ids(projects), n \in Names, p \in Passwords, k \in KeywordLists,
        a \in ApiKeys}

Next ==
    \/ \E n \in Names, p \in Passwords, a \in ApiKeys, k \in KeywordLists :
          AddProject(n, p, a, k)
    \/ \E id \in 1..MaxIds, r \in Replacements : UpdateProject(id, r)
    \/ \E id \in 1..MaxIds : DeleteProject(id)
    \/ WriteTemp
    \/ RemoveTarget
    \/ RenameTemp
    \/ LoadProjects

\* Sessions in which saves may fail: the directory loses and regains its
\* write permission.
NextPerm == Next \/ SetWritable

Spec == Init /\ [][NextPerm]_vars

\* Sessions in which the process dies and is started again at any point.
NextCrash == Next \/ Crash

SpecCrash == Init /\ [][NextCrash]_vars

\* Sessions beside which another process reads projects.json.
NextConc == Next \/ ReaderExists \/ ReaderOpen \/ ReaderReturn

SpecConc == Init /\ [][NextConc]_vars

----------------------------------------------------------------------------
(* Claims about the store in use *)

\* Records compared without updated_at, which from_dict sets anew.
Strip(projs) == [i \in 1..Len(projs) |-> [projs[i] EXCEPT !.updated_at = 0]]

\* What load_projects gives for the document before and after the running save.
OldRecords == Strip(LoadRecords(key, saveOld, now))
NewRecords == Strip(DecryptRecords(key, pending, now))

MidSave == {"writing", "written", "rename"}

\* C1: a save interrupted by a crash after the temp file is fully written
\* and before the rename has completed is followed by a load that returns
\* the records of the prior document or those of the new document.
C1_CrashAtomicity ==
    [][(pc = "boot" /\ crashPc \in {"written", "rename"} /\ pc' = "idle")
          => (Strip(projects') = OldRecords \/ Strip(projects') = NewRecords)]_vars

\* C2: a load_projects of another process that ends while a save is running
\* (temp write, removal of the target, rename) returns the records of the
\* old document or those of the new one.
C2_ReaderSeesOldOrNew ==
    [][(rpc # "done" /\ rpc' = "done" /\ pc \in MidSave)
          => (Strip(rres') = OldRecords \/ Strip(rres') = NewRecords)]_vars

\* The document holds exactly the records projs, its sensitive fields
\* decrypting to theirs.
Durable(projs) ==
    /\ file.exists
    /\ file.complete
    /\ Len(file.projects) = Len(projs)
    /\ \A i \in 1..Len(projs) :
         LET d == file.projects[i] IN
         /\ Decrypt(key, d.app_password) = Ok(projs[i].app_password)
         /\ Decrypt(key, d.ai_api_key) = Ok(projs[i].ai_api_key)
         /\ [d EXCEPT !.app_password = projs[i].app_password,
                      !.ai_api_key = projs[i].ai_api_key] = projs[i]

\* C3: once add_project, update_project or delete_project has returned True,
\* the durable document holds the in-memory collection, record for record.
C3_SuccessMeansDurable ==
    (pc = "idle" /\ op.name \in {"add", "update", "delete"} /\ ret = "True")
        => Durable(projects)

\* C4: no two records of the in-memory collection have the same name.
C4_NamesUnique ==
    \A i, j \in 1..Len(projects) : i # j => projects[i].name # projects[j].name

\* C5: add_project with a name some record of the collection has raises the
\* duplicate-name error and changes neither the collection nor the files,
\* and starts no save.  (Only MainWindow.add_project draws a uuid: a step
\* that moves nextId is a call of add_project, and op' holds its name.)
C5_DuplicateAddRejected ==
    [][(nextId' # nextId /\ HasName(projects, op'.arg))
          => /\ ret' = DuplicateName
             /\ projects' = projects
             /\ file' = file
             /\ tmp' = tmp
             /\ pc' = "idle"
             /\ pending' = pending]_vars

\* add_project has refused a second record of a name that is in the
\* collection and in the document.
C5_Witness ==
    /\ op.name = "add"
    /\ ret = DuplicateName
    /\ HasName(projects, op.arg)
    /\ file.exists
    /\ Len(file.projects) = Len(projects)

IdsUnique(projs) ==
    \A i, j \in 1..Len(projs) : i # j => projs[i].id # projs[j].id

C29_MutationsBlocked ==
    [][(/\ pc = "idle"
        /\ op.name = "add"
        /\ ret = "False"
        /\ ~writable
        /\ writable' = writable
        /\ op'.name \in {"add", "update", "delete"})
          => projects' = projects]_vars

C16_FailedAddReported ==
    [][(nextId' # nextId /\ ~HasName(projects, op'.arg) /\ ~writable)
          => /\ ret' = "False"
             /\ Len(projects') = Len(projects) + 1
             /\ SubSeq(projects', 1, Len(projects)) = projects
             /\ projects'[Len(projects')].name = op'.arg
             /\ projects'[Len(projects')].id = nextId'
             /\ file' = file
             /\ ~HasId(file'.projects, nextId')
             /\ pc' = "idle"]_vars

\* An add failed beside a saved record: the collection holds two records,
\* the document one.
C16_Witness ==
    /\ op.name = "add"
    /\ ret = "False"
    /\ Len(projects) = 2
    /\ HasName(projects, op.arg)
    /\ file.complete
    /\ Len(file.projects) = 1
    /\ ~HasName(file.projects, op.arg)

\* C17: update_project and delete_project with an id that no record of the
\* collection has raise the not-found error, start no save and leave the
\* collection, projects.json and the temp file as they were.
C17_AbsentIdRejected ==
    [][(/\ pc = "idle"
        /\ writable' = writable
        /\ op'.name \in {"update", "delete"}
        /\ ~HasId(projects, op'.arg))
          => /\ ret' = NotFound
             /\ projects' = projects
             /\ file' = file
             /\ tmp' = tmp
             /\ pending' = pending
             /\ pc' = "idle"]_vars

\* update_project was refused for an id that is not there, beside a saved
\* record.
C17_Witness ==
    /\ op.name = "update"
    /\ ret = NotFound
    /\ Len(projects) = 1
    /\ ~HasId(projects, op.arg)
    /\ file.complete
    /\ Len(file.projects) = 1

----------------------------------------------------------------------------
(* Records over time: a session in which the clock moves between the       *)
(* calls, so that a record built for update_project carries the time of    *)
(* its construction.                                                       *)

InitTime == Init

NextTime ==
    \/ \E p \in Passwords, a \in ApiKeys, k \in KeywordLists : AddProject("a", p, a, k)
    \/ \E id \in 1..MaxIds, r \in Replacements : UpdateProject(id, r)
    \/ SaveProjects
    \/ WriteTemp
    \/ RemoveTarget
    \/ RenameTemp
    \/ LoadProjects
    \/ Tick

SpecTime == InitTime /\ [][NextTime]_vars

\* C30: a record of the collection has, after any call, the created_at
\* that the record with its id had before the call.
C30_CreatedAtFixed ==
    [][\A i \in 1..Len(projects), j \in 1..Len(projects') :
          projects'[j].id = projects[i].id
             => projects'[j].created_at = projects[i].created_at]_vars

----------------------------------------------------------------------------
(* Save and load of a collection: ProjectManager.save_projects and         *)
(* load_projects over collections whose first record runs through the      *)
(* secrets (empty, one byte, multi-byte) and the keyword sequences          *)
(* (duplicates included); the records after it are fixed.                  *)

StorePasswords == {<<>>, <<97>>, <<233, 97>>}
StoreApiKeys == {<<>>, <<8364>>}
KeywordAlphabet == {"x", "y"}

RECURSIVE KeywordsUpTo(_)
KeywordsUpTo(n) ==
    IF n = 0 THEN {<<>>}
    ELSE LET shorter == KeywordsUpTo(n - 1) IN
         shorter \cup {Append(s, w) : s \in {t \in shorter : Len(t) = n - 1},
                                      w \in KeywordAlphabet}

NameOf(i) == IF i = 1 THEN "a" ELSE IF i = 2 THEN "b" ELSE IF i = 3 THEN "c" ELSE "d"

FirstRecords ==
    {CreateNew(1, NameOf(1), p, k, a, 0) :
        p \in StorePasswords, k \in KeywordsUpTo(MaxKeywords), a \in StoreApiKeys}

NextRecord(i) == CreateNew(i, NameOf(i), <<97>>, <<"y", "x">>, <<233>>, 0)

StoreCollections ==
    {<<>>} \cup {<<f>> \o [j \in 1..n |-> NextRecord(j + 1)] :
                    f \in FirstRecords, n \in 0..(MaxProjects - 1)}

InitStore ==
    /\ projects \in StoreCollections
    /\ file = NoFile
    /\ tmp = NoFile
    /\ pending = <<>>
    /\ saveOld = NoFile
    /\ writable = TRUE
    /\ pc = "idle"
    /\ op = NoCall
    /\ ret = "none"
    /\ crashPc = "none"
    /\ rpc = "idle"
    /\ rres = <<>>
    /\ now = 0
    /\ nextId = Len(projects)
    /\ key = 11
    /\ encIn = <<>>
    /\ encOut = <<>>
    /\ decOut = Fail
    /\ encPc = "start"
    /\ PipelineIdle

NextStore ==
    \/ SaveProjects
    \/ WriteTemp
    \/ RemoveTarget
    \/ RenameTemp
    \/ LoadProjects
    \/ Tick

SpecStore == InitStore /\ [][NextStore]_vars

\* c is what encrypt returns for x under this session's key.
IsEncryptOutput(c, x) == \E iv \in Nonces : c = Encrypt(key, iv, x)

Secrets(projs) ==
    {projs[i].app_password : i \in 1..Len(projs)}
        \cup {projs[i].ai_api_key : i \in 1..Len(projs)}

\* f's sensitive fields are encrypt's outputs for the in-memory records'
\* fields, and none of them is a non-empty secret of the collection.
Sealed(f) ==
    f.complete =>
        /\ Len(f.projects) = Len(projects)
        /\ \A i \in 1..Len(f.projects) :
             /\ IsEncryptOutput(f.projects[i].app_password, projects[i].app_password)
             /\ IsEncryptOutput(f.projects[i].ai_api_key, projects[i].ai_api_key)
             /\ \A x \in Secrets(projects) \ {<<>>} :
                  f.projects[i].app_password # x /\ f.projects[i].ai_api_key # x

\* C7: in the temp file and in the final document that save_projects
\* writes, app_password and ai_api_key of every record are outputs of
\* encrypt, and no non-empty sensitive value of an in-memory record stands
\* there in plaintext.
C7_SecretsEncryptedOnDisk == Sealed(tmp) /\ Sealed(file)

\* A document is on disk whose first record has a non-empty password and
\* an empty api key: the first is stored as ciphertext, the second empty.
C7_Witness ==
    /\ file.complete
    /\ Len(file.projects) = 2
    /\ Len(projects[1].app_password) = 2
    /\ projects[1].ai_api_key = <<>>
    /\ file.projects[1].ai_api_key = <<>>
    /\ Decrypt(key, file.projects[1].app_password) = Ok(projects[1].app_password)

\* C9: a load_projects that follows a successful save_projects returns the
\* saved records in their order, each with its keywords element for
\* element.
C9_KeywordOrderKept ==
    [][(op.name = "save" /\ ret = "True" /\ op'.name = "load")
          => /\ Len(projects') = Len(projects)
             /\ \A i \in 1..Len(projects) :
                  /\ projects'[i].id = projects[i].id
                  /\ projects'[i].keywords = projects[i].keywords]_vars

\* Two records were saved and loaded back, at a later time; the first has
\* the same keyword twice.
C9_Witness ==
    /\ op.name = "load"
    /\ file.complete
    /\ Len(projects) = 2
    /\ projects[1].keywords = <<"y", "y">>
    /\ projects[2].keywords = <<"y", "x">>
    /\ projects[1].updated_at > projects[1].created_at

\* C31: a load_projects that follows a successful save_projects returns
\* the saved records, equal in every field.
C31_SaveLoadRoundTrip ==
    [][(pc = "idle" /\ op.name = "save" /\ ret = "True" /\ op'.name = "load")
          => projects' = projects]_vars

----------------------------------------------------------------------------
(* Saves that fail: the directory loses its write permission, encrypt      *)
(* raises, or the write of the temp file raises.                           *)

\* DataStorage.save_projects, lines 61-64: encrypt raises for a sensitive
\* field (encryption.py lines 74-76 log and re-raise); nothing has been
\* opened yet, and ProjectManager.save_projects returns False.
SaveProjectsEncryptRaises ==
    /\ pc = "idle"
    /\ writable
    /\ Secrets(projects) \ {<<>>} # {}
    /\ op' = Call("save", "all")
    /\ ret' = ResultOf("save", FALSE)
    /\ UNCHANGED <<projects, diskVars, pending, saveOld, pc, writable, crashPc,
                   readerVars, now, nextId, key, encVars, pipeVars>>

\* a save that opens projects.json itself for its write
WriteTempFailsInPlace ==
    /\ pc = "writing"
    /\ file' = PartialFile
    /\ ret' = ResultOf(op.name, FALSE)
    /\ pc' = "idle"
    /\ pending' = <<>>
    /\ saveOld' = NoFile
    /\ UNCHANGED <<projects, tmp, op, writable, crashPc, readerVars, now, nextId,
                   key, encVars, pipeVars>>

\* DataStorage.save_projects, lines 75-79: json.dump or the close of the
\* temp file raises (a full disk); the temp file stays as far as it was
\* written, the except of line 96 re-raises and the call returns.
WriteTempFails ==
    /\ pc = "writing"
    /\ ret' = ResultOf(op.name, FALSE)
    /\ pc' = "idle"
    /\ pending' = <<>>
    /\ saveOld' = NoFile
    /\ UNCHANGED <<projects, file, tmp, op, writable, crashPc, readerVars, now,
                   nextId, key, encVars, pipeVars>>

InitSave == InitStore

NextSave ==
    \/ SaveProjects
    \/ SaveProjectsEncryptRaises
    \/ WriteTemp
    \/ WriteTempFails
    \/ RemoveTarget
    \/ RenameTemp
    \/ LoadProjects
    \/ SetWritable

SpecSave == InitSave /\ [][NextSave]_vars

C33_FailedSaveKeepsDocument ==
    [][/\ (pc = "idle" /\ writable' = writable /\ op'.name = "save" /\ ret' = "False")
             => file' = file
       /\ (pc = "writing" /\ pc' = "idle")
             => ret' = "False" /\ file' = saveOld]_vars

\* The write of the temp file failed, beside a document of two records
\* that an earlier save wrote.
C33_Witness ==
    /\ pc = "idle"
    /\ op.name = "save"
    /\ ret = "False"
    /\ writable
    /\ tmp = PartialFile
    /\ file.complete
    /\ Len(file.projects) = 2

----------------------------------------------------------------------------
(* load_projects over documents with damaged records: every record's       *)
(* sensitive fields are empty, a ciphertext of this session's key, such a  *)
(* ciphertext cut short, or a ciphertext of another key.                   *)

Truncated(c) == SubSeq(c, 1, Len(c) - 1)

StoredFields(k) ==
    LET iv == CHOOSE n \in Nonces : TRUE
        good == Encrypt(k, iv, <<97>>)
    IN  {<<>>, good, Truncated(good)} \cup {Encrypt(other, iv, <<97>>) : other \in Keys \ {k}}

StoredDict(i, app_password, ai_api_key) ==
    [id |-> i, name |-> NameOf(i), app_password |-> app_password,
     ai_api_key |-> ai_api_key, keywords |-> <<"x", "y">>,
     created_at |-> 0, updated_at |-> 0]

StoredDocuments(k) ==
    UNION {{[i \in 1..n |-> StoredDict(i, pw[i], ak[i])] :
                pw \in [1..n -> StoredFields(k)], ak \in [1..n -> StoredFields(k)]} :
           n \in 0..MaxProjects}

InitLoad ==
    /\ key = 11
    /\ projects = <<>>
    /\ file \in {NoFile} \cup {Document(dicts) : dicts \in StoredDocuments(key)}
    /\ tmp = NoFile
    /\ pending = <<>>
    /\ saveOld = NoFile
    /\ writable = TRUE
    /\ pc = "boot"
    /\ op = NoCall
    /\ ret = "none"
    /\ crashPc = "none"
    /\ rpc = "idle"
    /\ rres = <<>>
    /\ now = 0
    /\ nextId = 0
    /\ encIn = <<>>
    /\ encOut = <<>>
    /\ decOut = Fail
    /\ encPc = "start"
    /\ PipelineIdle

NextLoad == LoadProjects \/ Tick

SpecLoad == InitLoad /\ [][NextLoad]_vars

Decryptable(d) ==
    Decrypt(key, d.app_password).ok /\ Decrypt(key, d.ai_api_key).ok

\* C10: load_projects of a parseable document does not fail and returns
\* exactly the records whose app_password and ai_api_key both decrypt, in
\* document order; a record with an undecryptable field is absent.
C10_CorruptedRecordsSkipped ==
    (op.name = "load" /\ file.complete) =>
        LET kept == SelectSeq(file.projects, Decryptable) IN
        /\ ret = "list"
        /\ Len(projects) = Len(kept)
        /\ \A i \in 1..Len(kept) :
             /\ projects[i].id = kept[i].id
             /\ projects[i].name = kept[i].name
             /\ projects[i].keywords = kept[i].keywords
             /\ Ok(projects[i].app_password) = Decrypt(key, kept[i].app_password)
             /\ Ok(projects[i].ai_api_key) = Decrypt(key, kept[i].ai_api_key)

\* The first record of a document of two has a truncated ciphertext: the
\* load returned the second record alone.
C10_Witness ==
    /\ op.name = "load"
    /\ Len(file.projects) = 2
    /\ file.projects[1].app_password = Truncated(Encrypt(key, CHOOSE n \in Nonces : TRUE, <<97>>))
    /\ Len(projects) = 1
    /\ projects[1].id = 2
    /\ projects[1].app_password = <<97>>

----------------------------------------------------------------------------
(* load_projects when the document cannot be had: it is missing, open      *)
(* refuses it, or json.load rejects it; the collection in memory may hold  *)
(* a record from before.                                                   *)

\* ProjectManager.load_projects that keeps the collection when the open
\* has failed
LoadProjectsOpenRaisesKeep ==
    /\ pc = "idle"
    /\ file.exists
    /\ op' = Call("load", "denied")
    /\ ret' = "list"
    /\ UNCHANGED <<projects, diskVars, pending, saveOld, pc, crashPc, writable,
                   readerVars, now, nextId, key, encVars, pipeVars>>

\* DataStorage.load_projects, lines 110 and 134-136: open raises for a
\* document that exists (no permission to read it), the outer except
\* returns [] and ProjectManager.load_projects (line 61) makes it the
\* collection.  op.arg records that the open was refused.
LoadProjectsOpenRaises ==
    /\ pc = "idle"
    /\ file.exists
    /\ projects' = <<>>
    /\ op' = Call("load", "denied")
    /\ ret' = "list"
    /\ UNCHANGED <<diskVars, pending, saveOld, pc, crashPc, writable, readerVars,
                   now, nextId, key, encVars, pipeVars>>

InitLoadFail ==
    /\ key = 11
    /\ projects \in {<<>>, <<NextRecord(1)>>}
    /\ file \in {NoFile, PartialFile} \cup {Document(dicts) : dicts \in StoredDocuments(key)}
    /\ tmp = NoFile
    /\ pending = <<>>
    /\ saveOld = NoFile
    /\ writable = TRUE
    /\ pc = "idle"
    /\ op = NoCall
    /\ ret = "none"
    /\ crashPc = "none"
    /\ rpc = "idle"
    /\ rres = <<>>
    /\ now = 0
    /\ nextId = Len(projects)
    /\ encIn = <<>>
    /\ encOut = <<>>
    /\ decOut = Fail
    /\ encPc = "start"
    /\ PipelineIdle

NextLoadFail == LoadProjects \/ LoadProjectsOpenRaises

SpecLoadFail == InitLoadFail /\ [][NextLoadFail]_vars

\* C34: load_projects returns a list, whatever the document is; for a
\* missing document, one that open refuses and one that json.load rejects
\* the list is empty, and it is the collection after the call.
C34_LoadNeverRaises ==
    [][op'.name = "load"
          => /\ ret' = "list"
             /\ pc' = "idle"
             /\ (~file.exists \/ ~file.complete \/ op'.arg = "denied")
                   => projects' = <<>>]_vars

\* The open of a document of two good records was refused: the collection
\* is empty.
C34_Witness ==
    /\ op = Call("load", "denied")
    /\ ret = "list"
    /\ projects = <<>>
    /\ file.complete
    /\ Len(file.projects) = 2
    /\ Decryptable(file.projects[1])
    /\ Decryptable(file.projects[2])

----------------------------------------------------------------------------
(* A session over a document with damaged records: the load, then the     *)
(* calls that change the collection and save it.                           *)

\* The documents of MaxProjects records whose app_password is a ciphertext
\* of this session's key or such a ciphertext cut short.
DamagedDocuments(k) ==
    LET good == Encrypt(k, CHOOSE n \in Nonces : TRUE, <<97>>) IN
    {[i \in 1..MaxProjects |-> StoredDict(i, pw[i], good)] :
        pw \in [1..MaxProjects -> {good, Truncated(good)}]}

InitDamaged ==
    /\ key = 11
    /\ projects = <<>>
    /\ file \in {Document(dicts) : dicts \in DamagedDocuments(key)}
    /\ tmp = NoFile
    /\ pending = <<>>
    /\ saveOld = NoFile
    /\ writable = TRUE
    /\ pc = "boot"
    /\ op = NoCall
    /\ ret = "none"
    /\ crashPc = "none"
    /\ rpc = "idle"
    /\ rres = <<>>
    /\ now = 0
    /\ nextId = Len(file.projects)
    /\ encIn = <<>>
    /\ encOut = <<>>
    /\ decOut = Fail
    /\ encPc = "start"
    /\ PipelineIdle

NextDamaged ==
    \/ LoadProjects
    \/ \E n \in Names, p \in Passwords, a \in ApiKeys, k \in KeywordLists :
          AddProject(n, p, a, k)
    \/ \E id \in 1..MaxIds, r \in Replacements : UpdateProject(id, r)
    \/ \E id \in 1..MaxIds : DeleteProject(id)
    \/ WriteTemp
    \/ RemoveTarget
    \/ RenameTemp

SpecDamaged == InitDamaged /\ [][NextDamaged]_vars

\* C35: a record of the document whose sensitive fields do not decrypt is
\* not in the collection after load_projects, and the document that a
\* completed save of add_project, update_project or delete_project leaves
\* holds no record with the id of an undecryptable record of the document
\* it replaced.
C35_SkippedRecordDropped ==
    [][/\ (op'.name = "load" /\ file'.complete)
             => \A i \in 1..Len(file'.projects) :
                   ~Decryptable(file'.projects[i])
                      => ~HasId(projects', file'.projects[i].id)
       /\ (pc = "rename" /\ pc' = "idle" /\ op.name \in {"add", "update", "delete"})
             => \A i \in 1..Len(saveOld.projects) :
                   ~Decryptable(saveOld.projects[i])
                      => ~HasId(file'.projects, saveOld.projects[i].id)]_vars

\* The first record of the document was skipped by the load; add_project
\* has appended a record and its save is about to put a document of the
\* second record and the new one in the place of the old.
C35_Witness ==
    /\ pc = "rename"
    /\ op.name = "add"
    /\ saveOld.complete
    /\ ~Decryptable(saveOld.projects[1])
    /\ Decryptable(saveOld.projects[2])
    /\ Len(pending) = 2
    /\ ~HasId(pending, saveOld.projects[1].id)
    /\ HasId(pending, saveOld.projects[2].id)

----------------------------------------------------------------------------
(* The slug of a post: ContentProcessor._create_slug (content_processor.py *)
(* lines 129-148) on the keyword, then WordPressAPI._sanitize_slug         *)
(* (wordpress_api.py lines 117-135) on its result, inside create_post.     *)

MaxSlugLen == 3     \* code points of the enumerated keywords

SlugLimit == 50     \* slug[:50]

Hyphen == 45
Space == 32
Underscore == 95

\* str.lower() of one code point, where the result can hold a character of
\* [a-z0-9-]: A-Z, the Kelvin sign (U+212A, lower 'k') and capital I with
\* dot (U+0130, lower 'i' followed by U+0307).
LowerChar(c) ==
    IF c >= 65 /\ c <= 90 THEN <<c + 32>>
    ELSE IF c = 8490 THEN <<107>>
    ELSE IF c = 304 THEN <<105, 775>>
    ELSE <<c>>

RECURSIVE Lower(_)
Lower(s) == IF s = <<>> THEN <<>> ELSE LowerChar(Head(s)) \o Lower(Tail(s))

\* str.replace(old, new) for one-character strings
Replace(s, old, new) == [i \in 1..Len(s) |-> IF s[i] = old THEN new ELSE s[i]]

IsSlugChar(c) == (c >= 97 /\ c <= 122) \/ (c >= 48 /\ c <= 57) \/ c = Hyphen

\* re.sub(r'[^a-z0-9\-]', '', slug)
RemoveSpecial(s) == SelectSeq(s, IsSlugChar)

\* re.sub(r'-+', '-', slug)
RECURSIVE CollapseHyphens(_)
CollapseHyphens(s) ==
    IF Len(s) <= 1 THEN s
    ELSE IF s[1] = Hyphen /\ s[2] = Hyphen THEN CollapseHyphens(Tail(s))
    ELSE <<s[1]>> \o CollapseHyphens(Tail(s))

\* slug.strip('-')
RECURSIVE StripHyphens(_)
StripHyphens(s) ==
    IF s = <<>> THEN s
    ELSE IF Head(s) = Hyphen THEN StripHyphens(Tail(s))
    ELSE IF s[Len(s)] = Hyphen THEN StripHyphens(SubSeq(s, 1, Len(s) - 1))
    ELSE s

\* ContentProcessor._create_slug
CreateSlug(keyword) ==
    LET lowered == Lower(keyword)
        hyphened == Replace(lowered, Space, Hyphen)
        cleaned == RemoveSpecial(hyphened)
        single == CollapseHyphens(cleaned)
    IN  StripHyphens(single)

\* WordPressAPI._sanitize_slug
SanitizeSlug(slug) ==
    LET lowered == Lower(slug)
        hyphened == Replace(Replace(lowered, Space, Hyphen), Underscore, Hyphen)
        cleaned == RemoveSpecial(hyphened)
        single == CollapseHyphens(cleaned)
        stripped == StripHyphens(single)
    IN  SubSeq(stripped, 1, IF Len(stripped) < SlugLimit THEN Len(stripped) ELSE SlugLimit)

\* 'a', 'B', '2', ' ', '_', '-', '!' and the Kelvin sign
SlugAlphabet == {97, 66, 50, Space, Underscore, Hyphen, 33, 8490}

RECURSIVE KeywordsOfLen(_)
KeywordsOfLen(n) ==
    IF n = 0 THEN {<<>>}
    ELSE {Append(k, c) : k \in KeywordsOfLen(n - 1), c \in SlugAlphabet}

BestCoffeeMakers == <<66, 101, 115, 116, 32, 67, 111, 102, 102, 101, 101, 32, 77, 97, 107, 101, 114, 115, 32, 50, 48, 50, 52, 33>>    \* "Best Coffee Makers 2024!"
SpacedKeyword == <<32, 32, 97, 45, 45, 98, 95, 95, 99, 32, 32>>           \* "  a--b__c  "
LongKeyword == [i \in 1..51 |-> IF i = 50 THEN Hyphen ELSE 97]  \* 49 'a', '-', 'a'

\* The keywords a project may hold: every string of up to MaxSlugLen
\* characters of the alphabet, and three longer ones.
SlugKeywords ==
    UNION {KeywordsOfLen(n) : n \in 0..MaxSlugLen}
        \cup {BestCoffeeMakers, SpacedKeyword, LongKeyword}

InitSlug ==
    /\ StoreIdle
    /\ key = 11
    /\ encIn = <<>>
    /\ encOut = <<>>
    /\ decOut = Fail
    /\ encPc = "start"
    /\ key_file = NoKey
    /\ temp_key_file = NoKey
    /\ sessions = <<>>
    /\ runner = "none"
    /\ project = [keywords |-> <<>>]
    /\ index = 0
    /\ tpc = "idle"
    /\ title = ""
    /\ results = <<>>
    /\ is_running = FALSE
    /\ is_cancelled = FALSE
    /\ cancelled_at = NotCancelled
    /\ ended = "none"
    /\ events = <<>>
    /\ pauses = <<>>
    /\ replies = <<>>
    /\ slug_keyword \in SlugKeywords
    /\ slug_sent = <<>>
    /\ response = <<>>
    /\ wp_result = <<>>

Created == 201      \* the status create_post compares with

\* The statuses a server answers with: 200, 201 and 204 of the 2xx range,
\* a redirect, a client error and a server error.
StatusCodes == {200, Created, 204, 302, 400, 500}

\* response.text: the JSON of a post, or anything else (an error object, a
\* page of HTML, nothing)
Bodies == {"post", "other"}

\* What session.post(url, json=post_data, timeout=30) does: it returns a
\* response or raises.
Response(status_code, text) == [raised |-> "none", status_code |-> status_code, text |-> text]
Raised(exception) == [raised |-> exception, status_code |-> 0, text |-> ""]

PostAnswers ==
    {Response(c, b) : c \in StatusCodes, b \in Bodies}
        \cup {Raised(e) : e \in {"Timeout", "ConnectionError", "RequestException"}}

Failure(error_msg) == [success |-> FALSE, error |-> error_msg]

\* create_post, lines 48-80: what it returns for the answer of session.post.
\* response.json() and post_info['id'] raise for a body that is not the
\* JSON of a post, inside the try.
CreatePostReturn(r, slug) ==
    IF r.raised = "Timeout" THEN Failure(<<"Request timeout">>)
    ELSE IF r.raised = "ConnectionError" THEN Failure(<<"Connection error">>)
    ELSE IF r.raised # "none" THEN Failure(<<"Unexpected error", r.raised>>)
    ELSE IF r.status_code = Created
    THEN IF r.text = "post"
         THEN [success |-> TRUE, post_id |-> 1, post_url |-> "link", slug |-> slug]
         ELSE Failure(<<"Unexpected error", "json">>)
    ELSE Failure(<<"HTTP", r.status_code, r.text>>)

\* process_single_keyword, lines 88-98, and create_post, lines 24-80: the
\* slug of the keyword goes into post_data and is posted, and the answer is
\* turned into the dictionary create_post returns.
CreatePost ==
    /\ slug_sent = <<>>
    /\ slug_sent' = <<SanitizeSlug(CreateSlug(slug_keyword))>>
    /\ \E r \in PostAnswers :
          /\ response' = <<r>>
          /\ wp_result' = <<CreatePostReturn(r, slug_sent'[1])>>
    /\ UNCHANGED <<storeVars, key, encVars, keyVars, runVars, slug_keyword>>

NextSlug == CreatePost

SpecSlug == InitSlug /\ [][NextSlug]_vars

\* The derivation as specified: lowercase, spaces and underscores to
\* hyphens, characters outside [a-z0-9-] removed, repeated hyphens
\* collapsed, leading and trailing hyphens trimmed, cut to 50 characters.
SlugDerivation(keyword) ==
    LET lowered == Lower(keyword)
        hyphened == Replace(Replace(lowered, Space, Hyphen), Underscore, Hyphen)
        stripped == StripHyphens(CollapseHyphens(RemoveSpecial(hyphened)))
    IN  SubSeq(stripped, 1, IF Len(stripped) < 50 THEN Len(stripped) ELSE 50)

\* C15: the slug submitted to the publisher is the specified derivation of
\* the raw keyword; "Best Coffee Makers 2024!" gives
\* "best-coffee-makers-2024" and "  a--b__c  " gives "a-b-c".
C15_SlugDerivation ==
    slug_sent # <<>> => slug_sent[1] = SlugDerivation(slug_keyword)

\* C37: the slug that _sanitize_slug returns has at most 50 characters, all
\* of [a-z0-9-], no two hyphens in a row and no hyphen at either end, and
\* _sanitize_slug returns it unchanged.
C37_SlugWellFormed ==
    slug_sent # <<>> =>
        LET s == slug_sent[1] IN
        /\ Len(s) <= 50
        /\ \A i \in 1..Len(s) : IsSlugChar(s[i])
        /\ \A i \in 1..(Len(s) - 1) : ~(s[i] = Hyphen /\ s[i + 1] = Hyphen)
        /\ s # <<>> => s[1] # Hyphen /\ s[Len(s)] # Hyphen
        /\ SanitizeSlug(s) = s

\* C28: create_post returns a success for every answer with a status from
\* 200 to 299, and for every other status a failure that carries the
\* status and the body; whatever session.post does, create_post returns.
C28_Any2xxIsSuccess ==
    response # <<>> =>
        /\ wp_result # <<>>
        /\ response[1].raised = "none" =>
              IF response[1].status_code \in 200..299
              THEN wp_result[1].success
              ELSE wp_result[1] =
                      Failure(<<"HTTP", response[1].status_code, response[1].text>>)

----------------------------------------------------------------------------
(* The key of a data directory: one EncryptionManager construction after   *)
(* another over the same data_dir (encryption.py lines 11-61), a value     *)
(* encrypted in one session and decrypted in a later one.                  *)

MaxSessions == 3    \* EncryptionManager constructions in one behaviour

\* The keys Fernet.generate_key() has not returned yet: it never returns a
\* key twice.
FreshKeys == {k \in Keys : \A i \in 1..Len(sessions) : sessions[i] # k}

\* EncryptionManager.__init__ and _get_or_create_key: the key file of the
\* directory is read when it exists (lines 27-30); otherwise a key is
\* generated and written to it (lines 32-37) or, when that raises
\* PermissionError, to <tempdir>/wp_gen_key (lines 49-55).
NewEncryptionManager ==
    /\ Len(sessions) < MaxSessions
    /\ IF key_file # NoKey
       THEN /\ key' = key_file
            /\ UNCHANGED <<key_file, temp_key_file>>
       ELSE \E k \in FreshKeys :
                /\ key' = k
                /\ IF writable
                   THEN key_file' = k /\ UNCHANGED temp_key_file
                   ELSE temp_key_file' = k /\ UNCHANGED key_file
    /\ sessions' = Append(sessions, key')
    /\ UNCHANGED <<storeVars, encVars, runVars, slugVars>>

\* encrypt and decrypt are methods of a constructed EncryptionManager
SessionEncrypt == sessions # <<>> /\ EncryptCall

SessionDecrypt == sessions # <<>> /\ DecryptCall

InitKey ==
    /\ StoreIdle
    /\ key = NoKey
    /\ encIn \in Strings \ {<<>>}
    /\ encOut = <<>>
    /\ decOut = Fail
    /\ encPc = "start"
    /\ PipelineIdle

NextKey == NewEncryptionManager \/ SessionEncrypt \/ SessionDecrypt \/ SetWritable

SpecKey == InitKey /\ [][NextKey]_vars

\* C18: every EncryptionManager construction over the data directory
\* resolves the key the first one resolved, also when the first one wrote
\* its key to the temporary location, and a value encrypted in one session
\* decrypts in every later session.
C18_OneKeyPerDirectory ==
    /\ \A i \in 1..Len(sessions) : sessions[i] = sessions[1]
    /\ encPc = "decrypted" => decOut = Ok(encIn)

----------------------------------------------------------------------------
(* A run over one project's keywords: the worker thread of                 *)
(* ProgressWindow.process_keywords (progress_window.py lines 176-227), or  *)
(* ContentProcessor.process_all_keywords (content_processor.py lines       *)
(* 24-72); both call process_single_keyword (lines 74-127) per keyword.    *)
(* The generator and the publisher answer as they please.                  *)

MaxRunKeywords == 3     \* keywords of the project a run is over

Total == Len(project.keywords)          \* total_keywords
Keyword == project.keywords[index + 1]  \* the loop's keyword

\* ProcessingResult (models.py lines 62-70)
NoPostId == 0       \* post_id: int = None

ProcessingResult(keyword, success, t, post_id, post_url, error_message) ==
    [keyword |-> keyword, success |-> success, title |-> t, post_id |-> post_id,
     post_url |-> post_url, error_message |-> error_message]

\* response.json() of a created post (wordpress_api.py lines 49-57): the
\* server numbers its posts from 1
PostInfo == [id |-> index + 1, link |-> "link"]

\* a failed result that loses the generated title
PublishResultNoTitle(reply) ==
    IF reply = "201"
    THEN ProcessingResult(Keyword, TRUE, title, PostInfo.id, PostInfo.link, "")
    ELSE ProcessingResult(Keyword, FALSE, "", NoPostId, "", "HTTP error")

\* a failed result that carries the post of the answer all the same
PublishResultWithPost(reply) ==
    IF reply = "201"
    THEN ProcessingResult(Keyword, TRUE, title, PostInfo.id, PostInfo.link, "")
    ELSE ProcessingResult(Keyword, FALSE, title, PostInfo.id, PostInfo.link, "HTTP error")

\* What process_single_keyword returns for the publisher's answer (lines
\* 102-118)
PublishResult(reply) ==
    IF reply = "201"
    THEN ProcessingResult(Keyword, TRUE, title, PostInfo.id, PostInfo.link, "")
    ELSE ProcessingResult(Keyword, FALSE, title, NoPostId, "", "HTTP error")

\* update_progress(progress, status, current, total) as posted by the
\* worker, progress_callback(index, total, status) as called
ProgressEvent(current, total, status) ==
    [current |-> current, total |-> total, status |-> status]

Reply(generate, publish) == [generate |-> generate, publish |-> publish]

InitRun ==
    /\ StoreIdle
    /\ key = 11
    /\ encIn = <<>>
    /\ encOut = <<>>
    /\ decOut = Fail
    /\ encPc = "start"
    /\ key_file = NoKey
    /\ temp_key_file = NoKey
    /\ sessions = <<>>
    /\ runner \in {"process_keywords", "process_all_keywords"}
    /\ project \in {[keywords |-> k] : k \in KeywordsUpTo(MaxRunKeywords)}
    /\ index = 0
    /\ tpc = "idle"
    /\ title = ""
    /\ results = <<>>
    /\ is_running = FALSE
    /\ is_cancelled = FALSE
    /\ cancelled_at = NotCancelled
    /\ ended = "none"
    /\ events = <<>>
    /\ pauses = <<>>
    /\ replies = <<>>
    /\ slug_keyword = <<>>
    /\ slug_sent = <<>>
    /\ response = <<>>
    /\ wp_result = <<>>

\* start_processing without the return of lines 139-140
StartProcessingAgain ==
    /\ runner = "process_keywords"
    /\ tpc \notin {"construct", "done"}
    /\ is_running' = TRUE
    /\ is_cancelled' = FALSE
    /\ results' = <<>>
    /\ tpc' = "construct"
    /\ UNCHANGED <<runner, project, index, title, cancelled_at, ended, events, pauses,
                   replies>>
    /\ UNCHANGED <<storeVars, key, encVars, keyVars, slugVars>>

\* ProgressWindow.start_processing (lines 137-159)
StartProcessing ==
    /\ runner = "process_keywords"
    /\ ~is_running
    /\ tpc = "idle"
    /\ is_running' = TRUE
    /\ is_cancelled' = FALSE
    /\ results' = <<>>
    /\ tpc' = "construct"
    /\ UNCHANGED <<runner, project, index, title, cancelled_at, ended, events, pauses,
                   replies>>
    /\ UNCHANGED <<storeVars, key, encVars, keyVars, slugVars>>

\* process_keywords, lines 179-180: ContentProcessor(self.project); when
\* the construction raises (GeminiProvider._configure_api re-raises) the
\* outer except posts processing_failed (lines 224-227).
NewContentProcessor ==
    /\ tpc = "construct"
    /\ \E raises \in BOOLEAN :
          tpc' = IF raises THEN "post_failed" ELSE "loop"
    /\ index' = 0
    /\ UNCHANGED <<runner, project, title, results, is_running, is_cancelled,
                   cancelled_at, ended, events, pauses, replies>>
    /\ UNCHANGED <<storeVars, key, encVars, keyVars, slugVars>>

\* process_keywords whose loop does not look at is_cancelled
ProcessKeywordsNextNoCheck ==
    /\ runner = "process_keywords"
    /\ tpc = "loop"
    /\ IF index >= Total
       THEN /\ tpc' = "after"
            /\ UNCHANGED <<events, title>>
       ELSE /\ events' = Append(events, ProgressEvent(index, Total, Keyword))
            /\ title' = ""
            /\ tpc' = "generate"
    /\ UNCHANGED <<runner, project, index, results, is_running, is_cancelled,
                   cancelled_at, ended, pauses, replies>>
    /\ UNCHANGED <<storeVars, key, encVars, keyVars, slugVars>>

\* process_keywords, lines 182-189: the loop takes its next keyword, looks
\* at is_cancelled and posts the progress event; process_single_keyword is
\* entered and calls the generator (content_processor.py lines 82-83).
ProcessKeywordsNext ==
    /\ runner = "process_keywords"
    /\ tpc = "loop"
    /\ IF index >= Total \/ is_cancelled
       THEN /\ tpc' = "after"
            /\ UNCHANGED <<events, title>>
       ELSE /\ events' = Append(events, ProgressEvent(index, Total, Keyword))
            /\ title' = ""
            /\ tpc' = "generate"
    /\ UNCHANGED <<runner, project, index, results, is_running, is_cancelled,
                   cancelled_at, ended, pauses, replies>>
    /\ UNCHANGED <<storeVars, key, encVars, keyVars, slugVars>>

\* process_all_keywords is called (lines 28-31)
ProcessAllKeywords ==
    /\ runner = "process_all_keywords"
    /\ tpc = "idle"
    /\ results' = <<>>
    /\ index' = 0
    /\ tpc' = "loop"
    /\ UNCHANGED <<runner, project, title, is_running, is_cancelled, cancelled_at,
                   ended, events, pauses, replies>>
    /\ UNCHANGED <<storeVars, key, encVars, keyVars, slugVars>>

\* process_all_keywords, lines 33-40 and 53-65: the loop takes its next
\* keyword and calls progress_callback.  When the callback raises, the
\* except of line 53 records a failure and the loop goes on, past the sleep
\* of line 51; after the last keyword the callback is called once more and
\* what it raises then leaves process_all_keywords.
ProcessAllKeywordsNext ==
    /\ runner = "process_all_keywords"
    /\ tpc = "loop"
    /\ \E raises \in BOOLEAN :
          IF index >= Total
          THEN /\ events' = Append(events, ProgressEvent(Total, Total, "complete"))
               /\ ended' = IF raises THEN "raised" ELSE "returned"
               /\ tpc' = "done"
               /\ UNCHANGED <<index, title, results, replies>>
          ELSE /\ events' = Append(events, ProgressEvent(index, Total, Keyword))
               /\ title' = ""
               /\ IF raises
                  THEN /\ results' = Append(results,
                              ProcessingResult(Keyword, FALSE, "", NoPostId, "", "Unexpected error"))
                       /\ replies' = Append(replies, Reply("not called", "not called"))
                       /\ index' = index + 1
                       /\ tpc' = "loop"
                  ELSE /\ tpc' = "generate"
                       /\ UNCHANGED <<index, results, replies>>
               /\ UNCHANGED ended
    /\ UNCHANGED <<runner, project, is_running, is_cancelled, cancelled_at, pauses>>
    /\ UNCHANGED <<storeVars, key, encVars, keyVars, slugVars>>

\* process_single_keyword that lets the generator's exception out: in
\* process_keywords the except of line 206 logs it and records nothing
GenerateReturnRaise ==
    /\ tpc = "generate"
    /\ \E reply \in {"ok", "error"} :
          IF reply = "ok"
          THEN /\ title' = "t"
               /\ tpc' = "publish"
               /\ UNCHANGED <<results, replies>>
          ELSE /\ replies' = Append(replies, Reply("error", "not called"))
               /\ tpc' = "pause"
               /\ UNCHANGED <<title, results>>
    /\ UNCHANGED <<runner, project, index, is_running, is_cancelled, cancelled_at,
                   ended, events, pauses>>
    /\ UNCHANGED <<storeVars, key, encVars, keyVars, slugVars>>

\* a generator failure that leaves the loop through the outer except of
\* process_keywords
GenerateReturnFail ==
    /\ tpc = "generate"
    /\ \E reply \in {"ok", "error"} :
          IF reply = "ok"
          THEN /\ title' = "t"
               /\ tpc' = "publish"
               /\ UNCHANGED <<results, replies>>
          ELSE /\ replies' = Append(replies, Reply("error", "not called"))
               /\ tpc' = "post_failed"
               /\ UNCHANGED <<title, results>>
    /\ UNCHANGED <<runner, project, index, is_running, is_cancelled, cancelled_at,
                   ended, events, pauses>>
    /\ UNCHANGED <<storeVars, key, encVars, keyVars, slugVars>>

\* a failed result without error_message=str(e)
GenerateReturnNoMessage ==
    /\ tpc = "generate"
    /\ \E reply \in {"ok", "error"} :
          IF reply = "ok"
          THEN /\ title' = "t"
               /\ tpc' = "publish"
               /\ UNCHANGED <<results, replies>>
          ELSE /\ results' = Append(results,
                      ProcessingResult(Keyword, FALSE, "", NoPostId, "", ""))
               /\ replies' = Append(replies, Reply("error", "not called"))
               /\ tpc' = "pause"
               /\ UNCHANGED title
    /\ UNCHANGED <<runner, project, index, is_running, is_cancelled, cancelled_at,
                   ended, events, pauses>>
    /\ UNCHANGED <<storeVars, key, encVars, keyVars, slugVars>>

\* process_single_keyword, lines 83-86 and 120-127: generate_content
\* returns the title and the content, or raises; the exception becomes a
\* failed ProcessingResult, which the loop appends (content_processor.py
\* line 41, progress_window.py line 194).
GenerateReturn ==
    /\ tpc = "generate"
    /\ \E reply \in {"ok", "error"} :
          IF reply = "ok"
          THEN /\ title' = "t"
               /\ tpc' = "publish"
               /\ UNCHANGED <<results, replies>>
          ELSE /\ results' = Append(results,
                      ProcessingResult(Keyword, FALSE, "", NoPostId, "", "Gemini API error"))
               /\ replies' = Append(replies, Reply("error", "not called"))
               /\ tpc' = "pause"
               /\ UNCHANGED title
    /\ UNCHANGED <<runner, project, index, is_running, is_cancelled, cancelled_at,
                   ended, events, pauses>>
    /\ UNCHANGED <<storeVars, key, encVars, keyVars, slugVars>>

\* the loop with results.insert(0, result) for results.append(result)
PublishReturnInsert ==
    /\ tpc = "publish"
    /\ \E reply \in {"201", "error"} :
          /\ results' = <<PublishResult(reply)>> \o results
          /\ replies' = <<Reply("ok", reply)>> \o replies
    /\ tpc' = "pause"
    /\ UNCHANGED <<runner, project, index, title, is_running, is_cancelled,
                   cancelled_at, ended, events, pauses>>
    /\ UNCHANGED <<storeVars, key, encVars, keyVars, slugVars>>

\* process_single_keyword, lines 88-118: create_post answers 201 or does
\* not (any other status, a timeout, a connection error: success False);
\* the ProcessingResult is returned and the loop appends it.
PublishReturn ==
    /\ tpc = "publish"
    /\ \E reply \in {"201", "error"} :
          /\ results' = Append(results, PublishResult(reply))
          /\ replies' = Append(replies, Reply("ok", reply))
    /\ tpc' = "pause"
    /\ UNCHANGED <<runner, project, index, title, is_running, is_cancelled,
                   cancelled_at, ended, events, pauses>>
    /\ UNCHANGED <<storeVars, key, encVars, keyVars, slugVars>>

\* a loop that takes a failed keyword again
PauseRetry ==
    /\ tpc = "pause"
    /\ IF ~results[Len(results)].success
       THEN /\ tpc' = "loop"
            /\ UNCHANGED <<index, pauses>>
       ELSE IF index < Total - 1 /\ (runner = "process_keywords" => ~is_cancelled)
       THEN /\ pauses' = Append(pauses, index)
            /\ tpc' = "sleep"
            /\ UNCHANGED index
       ELSE /\ index' = index + 1
            /\ tpc' = "loop"
            /\ UNCHANGED pauses
    /\ UNCHANGED <<runner, project, title, results, is_running, is_cancelled,
                   cancelled_at, ended, events, replies>>
    /\ UNCHANGED <<storeVars, key, encVars, keyVars, slugVars>>

\* content_processor.py lines 50-51, progress_window.py lines 211-212: the
\* delay between two requests, or the next iteration at once.
Pause ==
    /\ tpc = "pause"
    /\ IF index < Total - 1 /\ (runner = "process_keywords" => ~is_cancelled)
       THEN /\ pauses' = Append(pauses, index)
            /\ tpc' = "sleep"
            /\ UNCHANGED index
       ELSE /\ index' = index + 1
            /\ tpc' = "loop"
            /\ UNCHANGED pauses
    /\ UNCHANGED <<runner, project, title, results, is_running, is_cancelled,
                   cancelled_at, ended, events, replies>>
    /\ UNCHANGED <<storeVars, key, encVars, keyVars, slugVars>>

\* time.sleep(5) returns
Wake ==
    /\ tpc = "sleep"
    /\ index' = index + 1
    /\ tpc' = "loop"
    /\ UNCHANGED <<runner, project, title, results, is_running, is_cancelled,
                   cancelled_at, ended, events, pauses, replies>>
    /\ UNCHANGED <<storeVars, key, encVars, keyVars, slugVars>>

\* process_keywords, lines 214-222: after the loop the worker posts the
\* final progress event and processing_complete, or processing_cancelled.
AfterLoop ==
    /\ tpc = "after"
    /\ IF ~is_cancelled
       THEN /\ events' = Append(events, ProgressEvent(Total, Total, "complete"))
            /\ tpc' = "post_complete"
       ELSE /\ tpc' = "post_cancelled"
            /\ UNCHANGED events
    /\ UNCHANGED <<runner, project, index, title, results, is_running, is_cancelled,
                   cancelled_at, ended, pauses, replies>>
    /\ UNCHANGED <<storeVars, key, encVars, keyVars, slugVars>>

\* processing_complete (lines 263-279), posted by the worker, runs in the main
\* thread.
ProcessingComplete ==
    /\ tpc = "post_complete"
    /\ is_running' = FALSE
    /\ ended' = "processing_complete"
    /\ tpc' = "done"
    /\ UNCHANGED <<runner, project, index, title, results, is_cancelled, cancelled_at,
                   events, pauses, replies>>
    /\ UNCHANGED <<storeVars, key, encVars, keyVars, slugVars>>

\* processing_cancelled (lines 281-288), posted by the worker, runs in the main
\* thread.
ProcessingCancelled ==
    /\ tpc = "post_cancelled"
    /\ is_running' = FALSE
    /\ ended' = "processing_cancelled"
    /\ tpc' = "done"
    /\ UNCHANGED <<runner, project, index, title, results, is_cancelled, cancelled_at,
                   events, pauses, replies>>
    /\ UNCHANGED <<storeVars, key, encVars, keyVars, slugVars>>

\* processing_failed (lines 290-299), posted by the worker, runs in the main
\* thread.
ProcessingFailed ==
    /\ tpc = "post_failed"
    /\ is_running' = FALSE
    /\ ended' = "processing_failed"
    /\ tpc' = "done"
    /\ UNCHANGED <<runner, project, index, title, results, is_cancelled, cancelled_at,
                   events, pauses, replies>>
    /\ UNCHANGED <<storeVars, key, encVars, keyVars, slugVars>>

\* a cancellation that ends the call in flight
CancelProcessingAbort ==
    /\ is_running
    /\ ~is_cancelled
    /\ is_cancelled' = TRUE
    /\ cancelled_at' = [tpc |-> tpc, index |-> index]
    /\ tpc' = IF tpc \in {"generate", "publish"} THEN "after" ELSE tpc
    /\ UNCHANGED <<runner, project, index, title, results, is_running, ended, events,
                   pauses, replies>>
    /\ UNCHANGED <<storeVars, key, encVars, keyVars, slugVars>>

\* ProgressWindow.cancel_processing (lines 167-174), in the main thread
\* while the worker runs: the user confirms and is_cancelled is set.
CancelProcessing ==
    /\ is_running
    /\ ~is_cancelled
    /\ is_cancelled' = TRUE
    /\ cancelled_at' = [tpc |-> tpc, index |-> index]
    /\ UNCHANGED <<runner, project, index, tpc, title, results, is_running, ended,
                   events, pauses, replies>>
    /\ UNCHANGED <<storeVars, key, encVars, keyVars, slugVars>>

NextRun ==
    \/ StartProcessing
    \/ NewContentProcessor
    \/ ProcessKeywordsNext
    \/ ProcessAllKeywords
    \/ ProcessAllKeywordsNext
    \/ GenerateReturn
    \/ PublishReturn
    \/ Pause
    \/ Wake
    \/ AfterLoop
    \/ ProcessingComplete
    \/ ProcessingCancelled
    \/ ProcessingFailed
    \/ CancelProcessing

SpecRun == InitRun /\ [][NextRun]_vars

\* The run went through its whole loop: processing_complete ran, or
\* process_all_keywords came to its end.
Completed == ended \in {"processing_complete", "returned", "raised"}

InFlight == tpc \in {"generate", "publish"}

FinalEvent == ProgressEvent(Total, Total, "complete")

\* C11: a run that is not cancelled has exactly one outcome per keyword
\* position, each decided by what the generator and the publisher answered
\* for that keyword alone; no answer of theirs makes the run fail.
C11_OneOutcomePerKeyword ==
    /\ Completed =>
          /\ Len(results) = Total
          /\ Len(replies) = Total
          /\ \A i \in 1..Total :
                /\ results[i].keyword = project.keywords[i]
                /\ results[i].success = (replies[i] = Reply("ok", "201"))
                /\ results[i].title = IF replies[i].generate = "ok" THEN "t" ELSE ""
    /\ ended = "processing_failed" => replies = <<>>

\* Three keywords, the generator failed for the second only: three
\* outcomes, the second failed, the first and the third succeeded.
C11_Witness ==
    /\ ended = "processing_complete"
    /\ Total = 3
    /\ Len(results) = 3
    /\ replies[2] = Reply("error", "not called")
    /\ results[1].success
    /\ ~results[2].success
    /\ results[3].success

\* C12: the i-th outcome has the keyword at position i, and while a
\* generator or publisher call is in flight for the keyword at index i the
\* outcomes and the answers of all i keywords before it are recorded.
C12_OutcomesInKeywordOrder ==
    /\ Len(results) <= Total
    /\ \A i \in 1..Len(results) : results[i].keyword = project.keywords[i]
    /\ InFlight => Len(results) = index /\ Len(replies) = index

\* The generator is called for the third keyword after a failed first and
\* a second outcome.
C12_Witness ==
    /\ tpc = "generate"
    /\ index = 2
    /\ project.keywords = <<"x", "y", "x">>
    /\ ~results[1].success
    /\ results[2].keyword = "y"

\* C13: cancellation signalled during the delay after the k-th outcome
\* (the worker sleeps at index k - 1): the outcomes stay k, no generator or
\* publisher call follows, and the run ends as cancelled.
C13_CancelDuringDelay ==
    cancelled_at.tpc = "sleep" =>
        /\ Len(results) = cancelled_at.index + 1
        /\ Len(replies) = cancelled_at.index + 1
        /\ ~InFlight
        /\ ended \in {"none", "processing_cancelled"}
        /\ tpc = "done" => ended = "processing_cancelled"

\* Cancelled during the delay after the first of three keywords: the run
\* is cancelled with one outcome.
C13_Witness ==
    /\ ended = "processing_cancelled"
    /\ cancelled_at = [tpc |-> "sleep", index |-> 0]
    /\ Total = 3
    /\ Len(results) = 1
    /\ Len(replies) = 1

\* C14: a pause follows every keyword but the last, once, also when the
\* keyword failed or the progress callback raised, and none follows the
\* last keyword.
C14_OnePauseBetweenAttempts ==
    /\ \A j \in 1..Len(pauses) : pauses[j] < Total - 1
    /\ Completed => pauses = [i \in 1..(Total - 1) |-> i - 1]

\* C19: the progress event (index, total, keyword) is emitted before the
\* generator is called for the keyword, and a run that has ended has
\* emitted the final event (total, total, complete) once, as its last.
C19_ProgressEvents ==
    /\ tpc = "generate" =>
          /\ events # <<>>
          /\ events[Len(events)] = ProgressEvent(index, Total, Keyword)
    /\ ended \in {"processing_complete", "processing_cancelled", "returned", "raised"} =>
          /\ events # <<>>
          /\ events[Len(events)] = FinalEvent
          /\ Cardinality({j \in 1..Len(events) : events[j] = FinalEvent}) = 1

\* C20: cancellation signalled while the generate or publish call for the
\* keyword at index i is in flight: the call returns, the outcome of that
\* keyword is recorded, no call starts for the next keyword and the run
\* ends as cancelled.
C20_CancelNotPreemptive ==
    cancelled_at.tpc \in {"generate", "publish"} =>
        LET i == cancelled_at.index IN
        /\ InFlight => index = i /\ Len(results) = i
        /\ ~InFlight =>
              /\ Len(results) = i + 1
              /\ results[i + 1].keyword = project.keywords[i + 1]
              /\ Len(replies) = i + 1
        /\ ended \in {"none", "processing_cancelled"}
        /\ tpc = "done" => ended = "processing_cancelled"

\* Cancelled while the publisher worked on the second of three keywords:
\* the run is cancelled with two outcomes.
C20_Witness ==
    /\ ended = "processing_cancelled"
    /\ cancelled_at = [tpc |-> "publish", index |-> 1]
    /\ Total = 3
    /\ Len(results) = 2
    /\ results[2].success
    /\ Len(replies) = 2

\* C21: processing_failed closes a run only after a failed set-up, before
\* the loop has done anything; no answer to a call in flight leads there;
\* a run of process_keywords that is over was closed by one of the three
\* handlers, and the handler that closed a run stays the one that closed it.
C21_FailedOnlyFromSetup ==
    [][/\ ended' = "processing_failed" =>
             replies' = <<>> /\ results' = <<>> /\ events' = <<>>
       /\ InFlight => tpc' # "post_failed" /\ ended' = "none"
       /\ ended # "none" => ended' = ended
       /\ (runner' = "process_keywords" /\ tpc' = "done")
             => ended' \in {"processing_complete", "processing_cancelled",
                            "processing_failed"}]_vars

\* The construction of the ContentProcessor raised and the run of a
\* project with keywords failed.
C21_Witness ==
    /\ ended = "processing_failed"
    /\ ~is_running
    /\ Total = 2
    /\ results = <<>>

\* C22: for a keyword whose generator call failed the outcome is failed,
\* with the generator's error message, no title and no post, the publisher
\* was not called, and the loop goes on to its delay and the next keyword.
C22_GeneratorFailureRecorded ==
    [][/\ \A i \in 1..Len(replies') :
             replies'[i].generate = "error" =>
                /\ replies'[i].publish = "not called"
                /\ results'[i] = ProcessingResult(project.keywords[i], FALSE, "",
                                                  NoPostId, "", "Gemini API error")
       /\ (Len(replies') > Len(replies) /\ replies'[Len(replies')].generate = "error")
             => tpc' = "pause" /\ index' = index
       /\ (tpc = "pause" /\ tpc' # "pause")
             => \/ tpc' = "sleep" /\ index' = index
                \/ tpc' = "loop" /\ index' = index + 1
       /\ (tpc = "sleep" /\ tpc' # "sleep")
             => tpc' = "loop" /\ index' = index + 1]_vars

\* The generator failed for the first of two keywords and is being called
\* for the second.
C22_Witness ==
    /\ tpc = "generate"
    /\ index = 1
    /\ replies = <<Reply("error", "not called")>>
    /\ ~results[1].success

\* C23: for a keyword whose content was generated and whose post the
\* publisher refused the outcome is failed, with the publisher's error,
\* the generated title and neither post identifier nor URL.
C23_PublisherFailureRecorded ==
    \A i \in 1..Len(replies) :
        replies[i] = Reply("ok", "error") =>
            results[i] = ProcessingResult(project.keywords[i], FALSE, "t",
                                          NoPostId, "", "HTTP error")

\* The publisher refused the post of the second keyword.
C23_Witness ==
    /\ Len(replies) = 2
    /\ replies[2] = Reply("ok", "error")
    /\ results[2].title = "t"
    /\ results[1].success

\* C24: an outcome is a success exactly when it has a post identifier and
\* a URL, and an outcome with an error message is a failure.
C24_SuccessIffPost ==
    \A i \in 1..Len(results) :
        /\ results[i].success <=> (results[i].post_id # NoPostId /\ results[i].post_url # "")
        /\ results[i].error_message # "" => ~results[i].success

\* A published keyword, one the publisher refused and one the generator
\* failed.
C24_Witness ==
    /\ Len(results) = 3
    /\ results[1].success
    /\ results[2].error_message = "HTTP error"
    /\ results[3].error_message = "Gemini API error"

\* C25: the generator is called for a keyword position only when no answer
\* is recorded for it, the publisher only from the generator's answer for
\* the same position, every call in flight ends in one recorded answer,
\* and the index never goes back.
C25_NoRetry ==
    [][/\ (tpc # "generate" /\ tpc' = "generate")
             => Len(replies) = index /\ index' = index
       /\ (tpc # "publish" /\ tpc' = "publish")
             => tpc = "generate" /\ index' = index /\ replies' = replies
       /\ (InFlight /\ ~InFlight')
             => Len(replies') = index + 1 /\ index' = index
       /\ index' >= index]_vars

\* process_all_keywords returned after three keywords, the first failed.
C25_Witness ==
    /\ ended = "returned"
    /\ Total = 3
    /\ Len(replies) = 3
    /\ replies[1].generate = "error"
    /\ ~results[1].success
    /\ results[2].success

\* C38: a run in which cancel_processing set is_cancelled does not end
\* through processing_complete.
C38_CancelMeansCancelled ==
    ended = "processing_complete" => ~is_cancelled

----------------------------------------------------------------------------
(* Runs that go on: the worker thread is scheduled, every generator and    *)
(* publisher call and every sleep returns, and the Tk main loop runs the   *)
(* handler that the worker posted.  Whether the user starts a run or       *)
(* cancels one is left open.                                               *)

WorkerStep ==
    \/ NewContentProcessor
    \/ ProcessKeywordsNext
    \/ ProcessAllKeywordsNext
    \/ GenerateReturn
    \/ PublishReturn
    \/ Pause
    \/ Wake
    \/ AfterLoop

HandlerStep ==
    \/ ProcessingComplete
    \/ ProcessingCancelled
    \/ ProcessingFailed

SpecRunFair == SpecRun /\ WF_vars(WorkerStep) /\ WF_vars(HandlerStep)

\* C39: a run that was started comes to one of the three handlers and
\* is_running is False again; and a worker is started only while
\* is_running is False and no worker is under way.
C39_RunsTerminate ==
    /\ is_running ~> (/\ ~is_running
                      /\ ended \in {"processing_complete", "processing_cancelled",
                                    "processing_failed"})
    /\ [][(tpc' = "construct" /\ tpc # "construct")
             => ~is_running /\ tpc = "idle"]_vars

\* A run over three keywords, cancelled during its second keyword, has
\* come to processing_cancelled.
C39_Witness ==
    /\ tpc = "done"
    /\ ended = "processing_cancelled"
    /\ ~is_running
    /\ Total = 3
    /\ Len(results) = 2
    /\ cancelled_at.index = 1

====
